---- MODULE Spec2Model ----
(***************************************************************************)
(* BookCourier backend (src/index.js): the Express routes over the          *)
(* MongoDB collections User, Book and Order, the Firebase token and role    *)
(* middleware, and the Stripe payment-intent route.  A book's stock is the  *)
(* quantity field of the Book schema of src/unnamed/part_000.               *)
(*                                                                         *)
(* A request is handled in one step unless its handler writes the store     *)
(* twice (DELETE /api/books/:id), in which case each write is a step and    *)
(* other requests may run in between.  res is the response most recently    *)
(* sent; a response of a handler also names the request it answers (req).   *)
(***************************************************************************)
EXTENDS Integers, FiniteSets, Sequences, TLC

VARIABLES users, books, orders, deleting, stripeCalls, wishlist, wishing,
          res

vars == <<users, books, orders, deleting, stripeCalls, wishlist, wishing, res>>

(* ------------------------------ bounds -------------------------------- *)

\* Identifiers the store can hold at once: books, orders.
MaxBooks == 2
MaxOrders == 2
\* Largest stock quantity a book is created with.
MaxStock == 1
\* Length of the log of calls made to the payment processor.
MaxCalls == 3
MaxWishes == 2
MaxRequests == 2

(* ------------------------------ values -------------------------------- *)

\* What findOne / findById give when nothing matches, and a field a request
\* body does not carry.
Null == [null |-> TRUE]
Absent == "absent"

Emails == {"a@x", "b@x"}
Names == {"n1", "n2"}
BookIds == 1..MaxBooks
OrderIds == 1..MaxOrders
WishIds == 1..MaxWishes
Requests == 1..MaxRequests
Quantities == 1..MaxStock

\* userSchema.role enum
Roles == {"user", "librarian", "admin"}
\* Role values a request body may carry: the enum, none, or a string outside it.
BodyRoles == Roles \cup {Absent, "superuser"}

\* orderSchema.status enum
OrderStatuses == {"pending", "cancelled", "shipped", "delivered"}

\* orderSchema.paymentStatus enum
PaymentStatuses == {"unpaid", "paid"}

\* The Authorization header: none, a token verifyIdToken rejects, or a valid
\* token, named by the email it decodes to.
NoHeader == "no-header"
BadToken == "bad-token"
Creds == {NoHeader, BadToken} \cup Emails

\* HTTP statuses the middleware sends.
StatusNoToken == 401
StatusInvalidToken == 403
StatusForbidden == 403
StatusInvalidRole == 400
StatusNotFound == 404
\* res.send without res.status
StatusOK == 200
StatusAlreadyInWishlist == 400
\* The handler threw inside an async function: no response is sent.
NoResponse == 0

(* ------------------------------ routes -------------------------------- *)

\* The routes registered with verifyRole, and the role array each passes.
GatedRoutes ==
  { "PATCH /api/users/:id", "GET /api/books/librarian", "GET /api/books/all",
    "POST /api/books", "PATCH /api/books/:id", "POST /api/books/:id/reviews",
    "GET /api/orders/user/:email", "DELETE /api/books/:id", "GET /api/users",
    "GET /api/orders/librarian", "GET /api/orders/admin", "POST /api/orders",
    "POST /api/wishlist", "GET /api/wishlist", "DELETE /api/wishlist/:id" }

\* The routes registered with verifyFirebaseToken alone.
TokenRoutes ==
  { "GET /api/users/:email", "GET /api/orders/:id", "PATCH /api/orders/:id",
    "POST /api/create-payment-intent" }

ProtectedRoutes == GatedRoutes \cup TokenRoutes

RequiredRoles(route) ==
  CASE route = "PATCH /api/users/:id" -> {"admin"}
    [] route = "GET /api/books/librarian" -> {"librarian", "admin"}
    [] route = "GET /api/books/all" -> {"librarian", "admin"}
    [] route = "POST /api/books" -> {"librarian", "admin"}
    [] route = "PATCH /api/books/:id" -> {"librarian", "admin"}
    [] route = "POST /api/books/:id/reviews" -> {"user"}
    [] route = "GET /api/orders/user/:email" -> {"user"}
    [] route = "DELETE /api/books/:id" -> {"admin"}
    [] route = "GET /api/users" -> {"admin"}
    [] route = "GET /api/orders/librarian" -> {"librarian", "admin"}
    [] route = "GET /api/orders/admin" -> {"admin"}
    [] route = "POST /api/orders" -> {"user"}
    [] route = "POST /api/wishlist" -> {"user"}
    [] route = "GET /api/wishlist" -> {"user"}
    [] route = "DELETE /api/wishlist/:id" -> {"user"}
    [] OTHER -> {}

(* ---------------------------- middleware ------------------------------ *)

\* The status verifyFirebaseToken sends, or NoResponse when it calls next().
verifyFirebaseToken(cred) ==
  IF cred = NoHeader THEN StatusNoToken
  ELSE IF cred = BadToken THEN StatusInvalidToken
  ELSE NoResponse

\* verifyRole without the !user test: a caller with no User record is let in.
verifyRole_NoRecordPasses(roles, email) ==
  LET user == users[email]
  IN IF user = Null THEN TRUE ELSE user.role \in roles

\* TRUE when verifyRole(roles) calls next() for the caller decoded to email.
verifyRole(roles, email) ==
  LET user == users[email]
  IN ~(user = Null \/ user.role \notin roles)

\* A response: the route and Authorization header of the request, the stage
\* that answered (the token check, the role check or the handler), the status
\* and the body sent.  req is Null when a middleware answered.
Response(route, cred, req, stage, status, body) ==
  [route |-> route, cred |-> cred, req |-> req, stage |-> stage,
   status |-> status, body |-> body]

\* The middleware chain of a protected route: the rejection it sends, or
\* stage "handler" when the route's handler is reached.
Chain(route, cred) ==
  LET t == verifyFirebaseToken(cred)
  IN IF t # NoResponse
       THEN Response(route, cred, Null, "token", t, Null)
     ELSE IF route \in GatedRoutes /\ ~verifyRole(RequiredRoles(route), cred)
       THEN Response(route, cred, Null, "role", StatusForbidden, Null)
     ELSE Response(route, cred, Null, "handler", StatusOK, Null)

(* ------------------------------- Init --------------------------------- *)

Init ==
  /\ users = [e \in Emails |-> Null]
  /\ books = [b \in BookIds |-> Null]
  /\ orders = [o \in OrderIds |-> Null]
  /\ deleting = Null
  /\ stripeCalls = <<>>
  /\ wishlist = [w \in WishIds |-> Null]
  /\ wishing = [r \in Requests |-> Null]
  /\ res = Response("GET /", NoHeader, Null, "handler", StatusOK, Null)

(* ------------------------------- users -------------------------------- *)

\* The registration as an upsert: the body's name and role replace the stored
\* ones.
FindOrCreate_Upsert(user, name, role) ==
  [name |-> name, role |-> IF role = Absent THEN "user" ELSE role]

\* let user = await User.findOne({ email }); if (!user) user = await
\* User.create({ email, name, role: role || "user" }): the record sent back.
FindOrCreate(user, name, role) ==
  IF user # Null THEN user
  ELSE [name |-> name, role |-> IF role = Absent THEN "user" ELSE role]

\* POST /api/users: no middleware; find by email, create when absent.
PostUsers(email, name, role) ==
  LET route == "POST /api/users"
      req == [email |-> email, name |-> name, role |-> role]
      user == FindOrCreate(users[email], name, role)
  IN /\ IF user.role \notin Roles
          \* enum validation rejects the create; the rejection is not caught
          THEN /\ res' = Response(route, NoHeader, req, "handler", NoResponse, Null)
               /\ UNCHANGED users
          ELSE /\ users' = [users EXCEPT ![email] = user]
               /\ res' = Response(route, NoHeader, req, "handler", StatusOK, user)
     /\ UNCHANGED <<books, orders, deleting, stripeCalls, wishlist, wishing>>

\* PATCH /api/users/:id: admin only; sets the role of the user with that id.
PatchUsers(cred, id, role) ==
  LET route == "PATCH /api/users/:id"
      req == [id |-> id, role |-> role]
      c == Chain(route, cred)
  IN /\ IF c.stage # "handler"
          THEN /\ res' = c
               /\ UNCHANGED users
        ELSE IF role \notin Roles
          THEN /\ res' = Response(route, cred, req, "handler", StatusInvalidRole, Null)
               /\ UNCHANGED users
        ELSE IF users[id] = Null
          THEN /\ res' = Response(route, cred, req, "handler", StatusOK, Null)
               /\ UNCHANGED users
        ELSE /\ users' = [users EXCEPT ![id].role = role]
             /\ res' = Response(route, cred, req, "handler", StatusOK,
                                [users[id] EXCEPT !.role = role])
     /\ UNCHANGED <<books, orders, deleting, stripeCalls, wishlist, wishing>>

(* ------------------------- read-only routes --------------------------- *)

ReadRoutes ==
  { "GET /api/users/:email", "GET /api/books/librarian", "GET /api/books/all",
    "GET /api/users", "GET /api/orders/librarian", "GET /api/orders/admin",
    "GET /api/wishlist" }

\* A protected route whose handler only reads the store.
Read(route, cred) ==
  /\ res' = Chain(route, cred)
  /\ UNCHANGED <<users, books, orders, deleting, stripeCalls, wishlist, wishing>>

(* ------------------------------- books -------------------------------- *)

\* POST /api/books: librarian or admin; the body with the caller stamped as
\* owner.  id is the _id the document gets: generated, or carried by the body.
PostBooks(cred, id, quantity) ==
  LET route == "POST /api/books"
      req == [id |-> id]
      c == Chain(route, cred)
      book == [addedByEmail |-> cred, quantity |-> quantity]
  IN /\ IF c.stage # "handler"
          THEN /\ res' = c
               /\ UNCHANGED books
        ELSE IF books[id] # Null
          \* duplicate _id: the create rejects and the rejection is not caught
          THEN /\ res' = Response(route, cred, req, "handler", NoResponse, Null)
               /\ UNCHANGED books
        ELSE /\ books' = [books EXCEPT ![id] = book]
             /\ res' = Response(route, cred, req, "handler", StatusOK, book)
     /\ UNCHANGED <<users, orders, deleting, stripeCalls, wishlist, wishing>>

\* The cascade with an empty filter: every order is deleted.
deleteMany_NoFilter(bookId) == [o \in OrderIds |-> Null]

\* Order.deleteMany({ bookId: book._id })
deleteMany(bookId) ==
  [o \in OrderIds |->
     IF orders[o] # Null /\ orders[o].bookId = bookId THEN Null ELSE orders[o]]

\* DELETE /api/books/:id, up to its first write: the middleware, findById and
\* the cascade Order.deleteMany.
DeleteBooksCascade(cred, id) ==
  LET route == "DELETE /api/books/:id"
      req == [id |-> id]
      c == Chain(route, cred)
  IN /\ deleting = Null
     /\ IF c.stage # "handler"
          THEN /\ res' = c
               /\ UNCHANGED <<orders, deleting>>
        ELSE IF books[id] = Null
          THEN /\ res' = Response(route, cred, req, "handler", StatusNotFound, Null)
               /\ UNCHANGED <<orders, deleting>>
        ELSE /\ orders' = deleteMany(id)
             /\ deleting' = [id |-> id, cred |-> cred]
             /\ UNCHANGED res
     /\ UNCHANGED <<users, books, stripeCalls, wishlist, wishing>>

\* DELETE /api/books/:id, its second write: book.deleteOne() and the response.
DeleteBooksRemove ==
  /\ deleting # Null
  /\ books' = [books EXCEPT ![deleting.id] = Null]
  /\ deleting' = Null
  /\ res' = Response("DELETE /api/books/:id", deleting.cred,
                     [id |-> deleting.id], "handler", StatusOK, Null)
  /\ UNCHANGED <<users, orders, stripeCalls, wishlist, wishing>>

(* ------------------------------- orders ------------------------------- *)

\* A body field, or the schema default when the body does not carry it.
OrDefault(field, default) == IF field = Absent THEN default ELSE field

\* POST /api/orders: role user; the body with the caller's email stamped on,
\* and the schema's defaults for the fields the body leaves out.
PostOrders(cred, id, bookId, status, paymentStatus) ==
  LET route == "POST /api/orders"
      req == [id |-> id]
      c == Chain(route, cred)
      order == [bookId |-> bookId, email |-> cred,
                status |-> OrDefault(status, "pending"),
                paymentStatus |-> OrDefault(paymentStatus, "unpaid")]
  IN /\ IF c.stage # "handler"
          THEN /\ res' = c
               /\ UNCHANGED orders
        ELSE IF orders[id] # Null
          \* duplicate _id: the create rejects and the rejection is not caught
          THEN /\ res' = Response(route, cred, req, "handler", NoResponse, Null)
               /\ UNCHANGED orders
        ELSE /\ orders' = [orders EXCEPT ![id] = order]
             /\ res' = Response(route, cred, req, "handler", StatusOK, order)
     /\ UNCHANGED <<users, books, deleting, stripeCalls, wishlist, wishing>>

\* Order.findByIdAndUpdate(id, body): the fields the body carries replace the
\* stored ones, the others stay.
Merge(order, body) ==
  [f \in DOMAIN order |-> IF f \in DOMAIN body THEN body[f] ELSE order[f]]

\* The bodies of PATCH /api/orders/:id: any one field of the schema.
OrderBodies ==
  {[paymentStatus |-> p] : p \in PaymentStatuses}
    \cup {[email |-> e] : e \in Emails}
    \cup {[bookId |-> b] : b \in BookIds}

\* PATCH /api/orders/:id: any valid token; one findByIdAndUpdate with the body.
PatchOrders(cred, id, body) ==
  LET route == "PATCH /api/orders/:id"
      req == [id |-> id]
      c == Chain(route, cred)
  IN /\ IF c.stage # "handler"
          THEN /\ res' = c
               /\ UNCHANGED orders
        ELSE IF orders[id] = Null
          THEN /\ res' = Response(route, cred, req, "handler", StatusOK, Null)
               /\ UNCHANGED orders
        ELSE /\ orders' = [orders EXCEPT ![id] = Merge(orders[id], body)]
             /\ res' = Response(route, cred, req, "handler", StatusOK,
                                Merge(orders[id], body))
     /\ UNCHANGED <<users, books, deleting, stripeCalls, wishlist, wishing>>

\* The order read without the comparison of emails.
GetOrderResponse_NoOwnerTest(cred, id) ==
  IF orders[id] = Null
    THEN Response("GET /api/orders/:id", cred, [id |-> id], "handler",
                  StatusNotFound, Null)
    ELSE Response("GET /api/orders/:id", cred, [id |-> id], "handler",
                  StatusOK, orders[id])

\* The response of GET /api/orders/:id once the token is verified: the order
\* when its email is the caller's.
GetOrderResponse(cred, id) ==
  LET route == "GET /api/orders/:id"
      req == [id |-> id]
      order == orders[id]
  IN IF order = Null
       THEN Response(route, cred, req, "handler", StatusNotFound, Null)
     ELSE IF order.email # cred
       THEN Response(route, cred, req, "handler", StatusForbidden, Null)
     ELSE Response(route, cred, req, "handler", StatusOK, order)

\* GET /api/orders/:id: any valid token.
GetOrder(cred, id) ==
  LET c == Chain("GET /api/orders/:id", cred)
  IN /\ res' = IF c.stage # "handler" THEN c ELSE GetOrderResponse(cred, id)
     /\ UNCHANGED <<users, books, orders, deleting, stripeCalls, wishlist, wishing>>

(* ---------------------------- book update ----------------------------- *)

\* The bodies of PATCH /api/books/:id: any one field of the book.
BookBodies ==
  {[addedByEmail |-> e] : e \in Emails}
    \cup {[quantity |-> q] : q \in Quantities}

\* PATCH /api/books/:id: librarian or admin; one Book.findByIdAndUpdate with
\* the body.
PatchBooks(cred, id, body) ==
  LET route == "PATCH /api/books/:id"
      req == [id |-> id]
      c == Chain(route, cred)
  IN /\ IF c.stage # "handler"
          THEN /\ res' = c
               /\ UNCHANGED books
        ELSE IF books[id] = Null
          THEN /\ res' = Response(route, cred, req, "handler", StatusOK, Null)
               /\ UNCHANGED books
        ELSE /\ books' = [books EXCEPT ![id] = Merge(books[id], body)]
             /\ res' = Response(route, cred, req, "handler", StatusOK,
                                Merge(books[id], body))
     /\ UNCHANGED <<users, orders, deleting, stripeCalls, wishlist, wishing>>

(* ------------------------------ wishlist ------------------------------ *)

\* Wishlist.findOne({userId, bookId}): whether a stored entry matches.  The
\* token's uid is identified with the token's email.
existing(userId, bookId) ==
  \E w \in WishIds :
    /\ wishlist[w] # Null
    /\ wishlist[w].userId = userId
    /\ wishlist[w].bookId = bookId

\* The least element of a non-empty set of integers.
Least(S) == CHOOSE x \in S : \A y \in S : x <= y

\* POST /api/wishlist up to its await of Wishlist.findOne: role user; an
\* existing entry is answered 400, otherwise the request goes on to the create.
PostWishlistFind(cred, bookId) ==
  LET route == "POST /api/wishlist"
      req == [bookId |-> bookId]
      c == Chain(route, cred)
      free == {r \in Requests : wishing[r] = Null}
  IN /\ free # {}
     /\ IF c.stage # "handler"
          THEN /\ res' = c
               /\ UNCHANGED wishing
        ELSE IF existing(cred, bookId)
          THEN /\ res' = Response(route, cred, req, "handler",
                                  StatusAlreadyInWishlist, Null)
               /\ UNCHANGED wishing
        ELSE /\ wishing' = [wishing EXCEPT
                              ![Least(free)] = [userId |-> cred, bookId |-> bookId]]
             /\ UNCHANGED res
     /\ UNCHANGED <<users, books, orders, deleting, stripeCalls, wishlist>>

\* POST /api/wishlist from its Wishlist.create on: the entry is stored under a
\* fresh _id and sent back.
PostWishlistCreate(r) ==
  LET route == "POST /api/wishlist"
      free == {w \in WishIds : wishlist[w] = Null}
  IN /\ wishing[r] # Null
     /\ free # {}
     /\ wishlist' = [wishlist EXCEPT ![Least(free)] = wishing[r]]
     /\ wishing' = [wishing EXCEPT ![r] = Null]
     /\ res' = Response(route, wishing[r].userId, [bookId |-> wishing[r].bookId],
                        "handler", StatusOK, wishing[r])
     /\ UNCHANGED <<users, books, orders, deleting, stripeCalls>>

\* DELETE /api/wishlist/:id: role user; 404 without the entry, 403 for an
\* entry of another user, otherwise the entry is removed.
DeleteWishlist(cred, id) ==
  LET route == "DELETE /api/wishlist/:id"
      req == [id |-> id]
      c == Chain(route, cred)
  IN /\ IF c.stage # "handler"
          THEN /\ res' = c
               /\ UNCHANGED wishlist
        ELSE IF wishlist[id] = Null
          THEN /\ res' = Response(route, cred, req, "handler", StatusNotFound, Null)
               /\ UNCHANGED wishlist
        ELSE IF wishlist[id].userId # cred
          THEN /\ res' = Response(route, cred, req, "handler", StatusForbidden, Null)
               /\ UNCHANGED wishlist
        ELSE /\ wishlist' = [wishlist EXCEPT ![id] = Null]
             /\ res' = Response(route, cred, req, "handler", StatusOK, Null)
     /\ UNCHANGED <<users, books, orders, deleting, stripeCalls, wishing>>



\* The amount field of a payment request body: an integer, a number that is
\* not an integer, or no amount.
Amounts ==
  {[kind |-> "integer", value |-> v] : v \in {-5, 0, 500}}
    \cup {[kind |-> "fraction", value |-> 0], [kind |-> "missing", value |-> 0]}

\* The payment processor returns an intent for a positive integer amount and
\* rejects anything else.
ProcessorAccepts(amount) == amount.kind = "integer" /\ amount.value > 0

\* POST /api/create-payment-intent: any valid token; the body's amount goes to
\* stripe.paymentIntents.create as it is.
CreatePaymentIntent(cred, amount) ==
  LET route == "POST /api/create-payment-intent"
      req == [amount |-> amount]
      c == Chain(route, cred)
  IN /\ Len(stripeCalls) < MaxCalls
     /\ IF c.stage # "handler"
          THEN /\ res' = c
               /\ UNCHANGED stripeCalls
          ELSE /\ stripeCalls' = Append(stripeCalls, amount)
               /\ res' = IF ProcessorAccepts(amount)
                           THEN Response(route, cred, req, "handler", StatusOK,
                                         [clientSecret |-> TRUE])
                         \* the processor's rejection is not caught
                         ELSE Response(route, cred, req, "handler", NoResponse,
                                       Null)
     /\ UNCHANGED <<users, books, orders, deleting, wishlist, wishing>>

(* --------------------------- specifications --------------------------- *)

\* The user directory and the middleware of the routes that only read.
NextAccess ==
  \/ \E email \in Emails, name \in Names, role \in BodyRoles :
       PostUsers(email, name, role)
  \/ \E cred \in Creds, id \in Emails, role \in BodyRoles :
       PatchUsers(cred, id, role)
  \/ \E route \in ReadRoutes, cred \in Creds : Read(route, cred)

SpecAccess == Init /\ [][NextAccess]_vars

\* The catalog and the order ledger, with registration under one name.
Next ==
  \/ \E email \in Emails, role \in BodyRoles : PostUsers(email, "n1", role)
  \/ \E cred \in Creds, id \in BookIds, quantity \in Quantities :
       PostBooks(cred, id, quantity)
  \/ \E cred \in Creds, id \in BookIds : DeleteBooksCascade(cred, id)
  \/ DeleteBooksRemove
  \/ \E cred \in Creds, id \in OrderIds, bookId \in BookIds,
        paymentStatus \in PaymentStatuses \cup {Absent} :
       PostOrders(cred, id, bookId, Absent, paymentStatus)
  \/ \E cred \in Creds, id \in OrderIds, body \in OrderBodies :
       PatchOrders(cred, id, body)
  \/ \E cred \in Creds, id \in OrderIds : GetOrder(cred, id)

Spec == Init /\ [][Next]_vars

\* The payment route alone.
NextPay ==
  \E cred \in Creds, amount \in Amounts : CreatePaymentIntent(cred, amount)

SpecPay == Init /\ [][NextPay]_vars

\* The catalog alone: registration, book creation and book update.
NextBooks ==
  \/ \E email \in Emails, role \in BodyRoles : PostUsers(email, "n1", role)
  \/ \E cred \in Creds, id \in BookIds, quantity \in Quantities :
       PostBooks(cred, id, quantity)
  \/ \E cred \in Creds, id \in BookIds, body \in BookBodies :
       PatchBooks(cred, id, body)

SpecBooks == Init /\ [][NextBooks]_vars

\* Order creation alone, with every status a body may carry.
NextOrders ==
  \/ \E email \in Emails, role \in BodyRoles : PostUsers(email, "n1", role)
  \/ \E cred \in Creds, id \in OrderIds, bookId \in BookIds,
        status \in OrderStatuses \cup {Absent},
        paymentStatus \in PaymentStatuses \cup {Absent} :
       PostOrders(cred, id, bookId, status, paymentStatus)

SpecOrders == Init /\ [][NextOrders]_vars

\* The wishlist alone: registration and the wishlist's add and remove.
NextWishlist ==
  \/ \E email \in Emails, role \in BodyRoles : PostUsers(email, "n1", role)
  \/ \E cred \in Creds, bookId \in BookIds : PostWishlistFind(cred, bookId)
  \/ \E r \in Requests : PostWishlistCreate(r)
  \/ \E cred \in Creds, id \in WishIds : DeleteWishlist(cred, id)

SpecWishlist == Init /\ [][NextWishlist]_vars

(* ------------------------------- claims ------------------------------- *)

\* An order that exists before and after a step and turns from unpaid to paid.
BecomesPaid(o) ==
  /\ orders[o] # Null
  /\ orders'[o] # Null
  /\ orders[o].paymentStatus = "unpaid"
  /\ orders'[o].paymentStatus = "paid"

\* A step of PATCH /api/orders/:id that asks for "paid" on an order already paid.
RepeatsPaid(o) ==
  /\ orders[o] # Null
  /\ orders[o].paymentStatus = "paid"
  /\ \E cred \in Emails : PatchOrders(cred, o, [paymentStatus |-> "paid"])

\* C1: the first PATCH /api/orders/:id that marks an order paid takes exactly 1
\* off the stock quantity of the order's book, and every repeat leaves the
\* stock as it is.
C1_PaidDecrementsStockOnce ==
  [][\A o \in OrderIds :
       LET b == orders[o].bookId
       IN /\ (BecomesPaid(o) /\ books[b] # Null) =>
               /\ books'[b] # Null
               /\ books'[b].quantity = books[b].quantity - 1
          /\ RepeatsPaid(o) => books' = books]_vars

\* An order that is paid after a step and was not before it.
TurnsPaid(o) ==
  /\ orders'[o] # Null
  /\ orders'[o].paymentStatus = "paid"
  /\ orders[o] = Null \/ orders[o].paymentStatus # "paid"

\* C2: an order becomes paid only in a step of the Payment Bridge, never in a
\* step of order creation or of the generic order update, whose bodies the
\* client chooses.
C2_PaidOnlyThroughPaymentBridge ==
  [][\A o \in OrderIds :
       TurnsPaid(o) => res'.route = "POST /api/create-payment-intent"]_vars

\* A stored role satisfies a required role set when it is in the set, or when
\* it is admin and the set admits a librarian.
Satisfies(role, required) ==
  role \in required \/ (role = "admin" /\ "librarian" \in required)

\* C3: for every role-gated route and every authenticated caller, the handler
\* is reached if and only if a User record exists for the caller's email and
\* its role satisfies the route's requirement; the same holds of the response
\* a gated read route has just sent.
C3_GateGrantsIffRoleSatisfies ==
  /\ \A route \in GatedRoutes, e \in Emails :
       (Chain(route, e).stage = "handler")
         <=> (users[e] # Null /\ Satisfies(users[e].role, RequiredRoles(route)))
  /\ (res.route \in GatedRoutes \cap ReadRoutes /\ res.cred \in Emails) =>
       ((res.stage = "handler")
          <=> (users[res.cred] # Null
                 /\ Satisfies(users[res.cred].role, RequiredRoles(res.route))))

\* An admin has passed a librarian-gated route, and the other caller has no
\* User record.
C3_Witness ==
  /\ res.route = "GET /api/books/all"
  /\ res.stage = "handler"
  /\ res.cred \in Emails
  /\ users[res.cred] # Null
  /\ users[res.cred].role = "admin"
  /\ \E e \in Emails : users[e] = Null

\* A user whose role after a step is not "user" and differs from before.
Elevated(e) ==
  /\ users'[e] # Null
  /\ users'[e].role # "user"
  /\ users[e] = Null \/ users[e].role # users'[e].role

\* C4: a User record gets a role other than "user" only in a step of
\* PATCH /api/users/:id whose caller is an admin; registration never does it.
C4_ElevationOnlyByAdminPatch ==
  [][\A e \in Emails :
       Elevated(e) =>
         /\ res'.route = "PATCH /api/users/:id"
         /\ res'.stage = "handler"
         /\ users[res'.cred] # Null
         /\ users[res'.cred].role = "admin"]_vars

\* C5: the cascade of DELETE /api/books/:id removes every order that references
\* the book and leaves every other order as it is, and the removal of the book
\* itself leaves the orders and the other books as they are.
C5_DeleteCascadeExact ==
  [][/\ (deleting = Null /\ deleting' # Null) =>
          /\ \A o \in OrderIds :
               IF orders[o] # Null /\ orders[o].bookId = deleting'.id
                 THEN orders'[o] = Null
                 ELSE orders'[o] = orders[o]
          /\ books' = books
     /\ (deleting # Null /\ deleting' = Null) =>
          /\ orders' = orders
          /\ books'[deleting.id] = Null
          /\ \A b \in BookIds \ {deleting.id} : books'[b] = books[b]]_vars

\* The cascade has just removed the order created by the last response, while
\* an order of another book is still stored.
C5_Witness ==
  /\ deleting # Null
  /\ res.route = "POST /api/orders"
  /\ res.status = StatusOK
  /\ res.body # Null
  /\ res.body.bookId = deleting.id
  /\ \A o \in OrderIds : orders[o] # Null => orders[o].bookId # deleting.id
  /\ \E o \in OrderIds : orders[o] # Null /\ books[orders[o].bookId] # Null

\* C6: when no DELETE is in flight, every stored order references a book that
\* is stored.
C6_OrdersReferenceStoredBooks ==
  deleting = Null =>
    \A o \in OrderIds : orders[o] # Null => books[orders[o].bookId] # Null

\* C7: POST /api/users with an email that is already registered sends the
\* stored record and leaves the user collection as it is, whatever name and
\* role the body carries.
C7_RegistrationIdempotent ==
  [][\A email \in Emails, name \in Names, role \in BodyRoles :
       (users[email] # Null /\ PostUsers(email, name, role)) =>
         /\ users' = users
         /\ res'.status = StatusOK
         /\ res'.body = users[email]]_vars

\* A registration that carried another name and another role than the stored
\* ones has been answered with the stored record.
C7_Witness ==
  /\ res.route = "POST /api/users"
  /\ res.status = StatusOK
  /\ users[res.req.email] = res.body
  /\ res.req.name # res.body.name
  /\ res.req.role \in Roles
  /\ res.req.role # res.body.role

\* An amount the Payment Bridge may pass on: an integer above zero.
PositiveInteger(amount) == amount.kind = "integer" /\ amount.value >= 1

\* C8: every amount passed to the payment processor is a positive integer.
C8_ProcessorCalledOnlyForPositiveInteger ==
  \A i \in DOMAIN stripeCalls : PositiveInteger(stripeCalls[i])

C10_UnauthenticatedIs401 ==
  res.route \in ProtectedRoutes =>
    /\ res.stage = "token" => res.status = 401
    /\ res.stage = "role" => res.status = 403

\* A stored book that is still stored after a step, with another content.
BookChanged(b) ==
  /\ books[b] # Null
  /\ books'[b] # Null
  /\ books'[b] # books[b]

\* C11: a stored book changes only in a step of PATCH /api/books/:id whose
\* caller is the book's owner or an admin, and no such step changes the book's
\* addedByEmail.
C11_BookUpdateByOwnerOrAdminKeepsOwner ==
  [][\A b \in BookIds :
       BookChanged(b) =>
         /\ res'.route = "PATCH /api/books/:id"
         /\ res'.stage = "handler"
         /\ \/ books[b].addedByEmail = res'.cred
            \/ users[res'.cred].role = "admin"
         /\ books'[b].addedByEmail = books[b].addedByEmail]_vars

\* C12: the order stored by a POST /api/orders has status "pending" and
\* paymentStatus "unpaid", whatever the body carries.
C12_CreatedOrderPendingUnpaid ==
  [][\A o \in OrderIds :
       (orders[o] = Null /\ orders'[o] # Null) =>
         /\ orders'[o].status = "pending"
         /\ orders'[o].paymentStatus = "unpaid"]_vars

\* C13: the wishlist holds at most one entry for a user and a book, also when
\* two POST /api/wishlist of the same user and book overlap.
C13_WishlistOneEntryPerUserAndBook ==
  \A w1, w2 \in WishIds :
    (wishlist[w1] # Null /\ wishlist[w1] = wishlist[w2]) => w1 = w2

====
